---- MODULE Spec2Model ----
(***************************************************************************)
(* The Sudoku board of src/src/main.py: Cell, Board and the propagation    *)
(* loop Board.update_all_cell, as a state machine.                         *)
(*                                                                         *)
(* A run constructs one Board from (input, size), then a driver calls      *)
(* update_all_cell up to MaxCalls times.  One step of the model is one     *)
(* iteration of the for-loop of update_all_cell (one update_one_cell       *)
(* call), or the test that ends a pass.                                    *)
(*                                                                         *)
(* A second driver (ApiSpec) uses the methods one call at a time: it       *)
(* constructs a single Cell and calls remove_candidates, decide and        *)
(* update_cell on it, or constructs a Board and calls update_one_cell on   *)
(* cells of its own choice, up to MaxDirect calls.                         *)
(***************************************************************************)
EXTENDS Integers, Sequences, FiniteSets

VARIABLES
    size,     \* the size argument of Board(cells, size)
    input,    \* the cells argument of Board(cells, size): a sequence of integers
    order,    \* which iteration order the set self._cells has (fixed once built)
    pc,       \* "new" | "failed" | "idle" | "loop" | "newcell" | "cell"
    raised,   \* the exception the constructor raised, or "none"
    place,    \* cell id -> (Cell._x, Cell._y, Cell._block), set by Cell.__init__
    value,    \* cell id -> Cell._value (None for unset)
    cands,    \* cell id -> Cell._candidates
    update,   \* the local flag of update_all_cell
    pos,      \* position of the for-loop in the iteration order, 1..n+1
    passes,   \* full passes completed by the current (or last) update_all_cell
    calls,    \* update_all_cell calls that have returned
    ops       \* calls the driver made itself on one cell (Cell's methods, update_one_cell)

vars == <<size, input, order, pc, raised, place, value, cands, update, pos, passes, calls, ops>>

----------------------------------------------------------------------------
(* Bounds of the model *)

\* At most this many entries of a 1x1 or 4x4 fixture are overwritten ...
MaxEdits == 1

\* ... and only among the first EditSpan entries of the sequence.
EditSpan == 5

\* Iteration orders 0..MaxOrder of the cell set are explored.
MaxOrder == 2

\* The driver calls update_all_cell at most this many times.
MaxCalls == 2

\* The pass counter stops the loop here (never reached by the code's loop).
MaxPasses == 16

\* The second driver makes at most this many calls on cells.
MaxDirect == 4

\* Board sizes explored (perfect squares).
Sizes == {1, 4, 9}

----------------------------------------------------------------------------
(* Python values *)

\* Python's None; also the 0 that callers pass for an empty square.
None == 0

\* int(size**0.5)
IntSqrt(n) == CHOOSE r \in 0..n : r * r <= n /\ (r + 1) * (r + 1) > n

----------------------------------------------------------------------------
(* Inputs *)

\* The puzzle of the __main__ block.
MainPuzzle ==
   << 0, 0, 0, 0, 0, 9, 8, 0, 6,
      3, 0, 6, 8, 1, 0, 0, 0, 0,
      0, 8, 0, 0, 0, 2, 0, 7, 0,
      0, 3, 0, 0, 7, 0, 4, 0, 2,
      0, 7, 0, 6, 0, 4, 0, 5, 0,
      5, 0, 2, 0, 8, 0, 0, 1, 0,
      0, 2, 0, 1, 0, 0, 0, 6, 0,
      0, 0, 0, 0, 9, 5, 3, 0, 8,
      8, 0, 4, 7, 0, 0, 0, 0, 0 >>

\* A 9x9 board whose row 0 is 5 3 _ _ 7 _ _ _ _ and whose other rows are empty.
RowPuzzle == [i \in 1..81 |-> IF i = 1 THEN 5 ELSE IF i = 2 THEN 3 ELSE IF i = 5 THEN 7 ELSE 0]

\* The 9x9 board with no given value.
Empty9 == [i \in 1..81 |-> 0]

\* 4x4 boards: empty, a puzzle propagation solves, a solved grid, and a
\* board whose cell 0 has every value among its peers.
Empty4 == [i \in 1..16 |-> 0]

Chain4 == << 0, 2, 4, 0,
             0, 0, 0, 1,
             3, 0, 0, 0,
             0, 0, 0, 0 >>

Solved4 == << 1, 2, 3, 4,
              3, 4, 1, 2,
              2, 1, 4, 3,
              4, 3, 2, 1 >>

Covered4 == << 0, 1, 2, 3,
               4, 0, 0, 0,
               0, 0, 0, 0,
               0, 0, 0, 0 >>

Fixtures(s) ==
    CASE s = 1 -> { <<0>> }
      [] s = 4 -> { Empty4, Chain4, Solved4, Covered4 }
      [] s = 9 -> { MainPuzzle, RowPuzzle, Empty9 }

\* Every way to overwrite one of the first EditSpan entries of a board of T
\* with a value of 0..s+1 (0 and s+1 are outside range(1, s+1)), the boards
\* of T included.
EditOnce(T, s) ==
    T \cup { [t EXCEPT ![i] = v] :
                t \in T, i \in { j \in 1..(s * s) : j <= EditSpan }, v \in 0..(s + 1) }

RECURSIVE Edited(_, _, _)
Edited(T, s, k) == IF k = 0 THEN T ELSE Edited(EditOnce(T, s), s, k - 1)

\* Well-sized inputs: the 9x9 fixtures as they are, the smaller ones edited.
Inputs(s) == IF s = 9 THEN Fixtures(s) ELSE Edited(Fixtures(s), s, MaxEdits)

\* Inputs of the wrong length: a fixture one value short, or one value long.
BadInputs(s) ==
    { SubSeq(t, 1, Len(t) - 1) : t \in Fixtures(s) }
        \cup { Append(t, v) : t \in Fixtures(s), v \in 0..1 }

----------------------------------------------------------------------------
(* Cell *)

\* get_pos without the division of x by size_root.
get_pos_no_div(p, s) ==
    LET x == p % s
        y == p \div s
        size_root == IntSqrt(s)
    IN  [x |-> x, y |-> y, blk |-> size_root * (y \div size_root) + x]

\* Cell.get_pos: (x, y, blk) of position p on a board of size s.
get_pos(p, s) ==
    LET x == p % s
        y == p \div s
        size_root == IntSqrt(s)
    IN  [x |-> x, y |-> y, blk |-> size_root * (y \div size_root) + (x \div size_root)]

\* Cell.__init__: the initial value and the initial candidates.
InitValue(v, s) == IF v \in 1..s THEN v ELSE None

\* The candidates built from range(size) for range(1, size+1).
InitCandidatesFromZero(v, s) == { i \in 0..(s - 1) : i # v }

InitCandidates(v, s) == { i \in 1..s : i # v }

\* Cell.col, Cell.row, Cell.block of the cell with id c.
col(c) == place[c].x

row(c) == place[c].y

block(c) == place[c].blk

\* remove_candidates with ^= (symmetric difference) for -=.
remove_candidates_symdiff(K, R) == (K \ R) \cup (R \ K)

\* remove_candidates that refuses to empty the candidate set.
remove_candidates_keep_last(K, R) == IF K \ R = {} THEN K ELSE K \ R

\* Cell.remove_candidates: self._candidates -= candidates
remove_candidates(K, R) == K \ R

\* decide with "len(self._candidates) >= 1" for "== 1".
decide_some_left(v, K) ==
    IF v # None THEN [value |-> v, candidates |-> K]
    ELSE IF Cardinality(K) >= 1
         THEN [value |-> CHOOSE k \in K : TRUE, candidates |-> {}]
         ELSE [value |-> v, candidates |-> K]

\* decide without the early return on a value that is already set.
decide_no_return(v, K) ==
    IF Cardinality(K) = 1
    THEN [value |-> CHOOSE k \in K : TRUE, candidates |-> {}]
    ELSE [value |-> v, candidates |-> K]

\* Cell.decide on a cell with value v and candidates K: the cell afterwards.
decide(v, K) ==
    IF v # None THEN [value |-> v, candidates |-> K]
    ELSE IF Cardinality(K) = 1
         THEN [value |-> CHOOSE k \in K : TRUE, candidates |-> {}]
         ELSE [value |-> v, candidates |-> K]

\* Cell.update_cell: remove_candidates, then decide.
update_cell(v, K, R) == decide(v, remove_candidates(K, R))

\* Cell.valid
CellValid(c) ==
    IF value[c] = None THEN Cardinality(cands[c]) # 0 ELSE Cardinality(cands[c]) = 0

----------------------------------------------------------------------------
(* Board *)

\* The ids of the cells of self._cells.
Cells == DOMAIN value

NumCells == Cardinality(Cells)

\* The length test with < for !=.
SizeMismatchShortOnly(cells, s) == Len(cells) < s * s

\* Board.__init__: the length test.
SizeMismatch(cells, s) == Len(cells) # s * s

get_col(k) == { c \in Cells : col(c) = k }

get_row(k) == { c \in Cells : row(c) = k }

get_block(k) == { c \in Cells : block(c) = k }

\* check(target) of Board.valid: the set values of the group, as a list,
\* are as many as they are as a set.
Check(G) ==
    Cardinality({ c \in G : value[c] # None }) = Cardinality({ value[c] : c \in G } \ {None})

\* Board.valid without get_block among gen_funcs.
BoardValidNoBlock ==
    /\ \A i \in 0..(size - 1) : Check(get_col(i))
    /\ \A i \in 0..(size - 1) : Check(get_row(i))

\* Board.valid
BoardValid ==
    /\ \A i \in 0..(size - 1) : Check(get_col(i))
    /\ \A i \in 0..(size - 1) : Check(get_row(i))
    /\ \A i \in 0..(size - 1) : Check(get_block(i))

\* Board.fill
Fill == \A i \in 0..(size - 1) : \A c \in get_row(i) : value[c] # None

\* is_solved that forgets valid().
IsSolvedFillOnly == Fill

\* Board.is_solved
IsSolved == Fill /\ BoardValid

\* update_one_cell with the block left out of the union.
RemoveSetNoBlock(c) ==
    { value[d] : d \in get_col(col(c)) } \cup { value[d] : d \in get_row(row(c)) }

\* update_one_cell removing the values of every cell of the board.
RemoveSetAllCells(c) == { value[d] : d \in Cells }

\* update_one_cell with the row left out of the union.
RemoveSetNoRow(c) ==
    { value[d] : d \in get_col(col(c)) } \cup { value[d] : d \in get_block(block(c)) }

\* remove_candidates of update_one_cell: the values (None included) of the
\* cell's column, row and block.
RemoveSet(c) ==
    { value[d] : d \in get_col(col(c)) }
        \cup { value[d] : d \in get_row(row(c)) }
        \cup { value[d] : d \in get_block(block(c)) }

\* update_one_cell comparing the copy with the removed set instead of with
\* the candidates afterwards.
update_one_cell_wrong_compare(c) ==
    LET before_candidates == cands[c]
        after == update_cell(value[c], cands[c], RemoveSet(c))
    IN  [value |-> after.value,
         candidates |-> after.candidates,
         ret |-> before_candidates # RemoveSet(c)]

\* update_one_cell returning whether the value (not the candidates) changed.
update_one_cell_value_compare(c) ==
    LET before_candidates == cands[c]
        after == update_cell(value[c], cands[c], RemoveSet(c))
    IN  [value |-> after.value,
         candidates |-> after.candidates,
         ret |-> value[c] # after.value]

\* Board.update_one_cell(c): the cell afterwards, and the value returned
\* (whether the candidates differ from the copy taken before).
update_one_cell(c) ==
    LET before_candidates == cands[c]
        after == update_cell(value[c], cands[c], RemoveSet(c))
    IN  [value |-> after.value,
         candidates |-> after.candidates,
         ret |-> before_candidates # after.candidates]

\* The cell at position j (1..n) of iteration order k over n cells.  Order 0
\* is ascending id, order 1 descending, the others stride through the ids.
Stride(k, n) == IF k = 0 THEN 1 ELSE IF k = 1 THEN n - 1
                ELSE IF k % 2 = 0 THEN 3 * k - 1 ELSE 3 * k - 2

Offset(k, n) == IF k = 0 THEN 0 ELSE IF k = 1 THEN n - 1 ELSE k

OrderAt(k, j, n) == (Stride(k, n) * (j - 1) + Offset(k, n)) % n

----------------------------------------------------------------------------
(* Actions *)

Init ==
    /\ size \in Sizes
    /\ input \in Inputs(size) \cup BadInputs(size)
    /\ order \in 0..MaxOrder
    /\ pc = "new"
    /\ raised = "none"
    /\ place = << >>
    /\ value = << >>
    /\ cands = << >>
    /\ update = FALSE
    /\ pos = 0
    /\ passes = 0
    /\ calls = 0
    /\ ops = 0

\* Board(input, size)
BoardInit ==
    /\ pc = "new"
    /\ IF SizeMismatch(input, size)
       THEN /\ pc' = "failed"
            /\ raised' = "ValueError"
            /\ UNCHANGED <<place, value, cands>>
       ELSE /\ pc' = "idle"
            /\ place' = [c \in 0..(Len(input) - 1) |-> get_pos(c, size)]
            /\ value' = [c \in 0..(Len(input) - 1) |-> InitValue(input[c + 1], size)]
            /\ cands' = [c \in 0..(Len(input) - 1) |-> InitCandidates(input[c + 1], size)]
            /\ UNCHANGED raised
    /\ UNCHANGED <<size, input, order, update, pos, passes, calls, ops>>

\* update_all_cell is entered: update = False, the first pass begins.
UpdateAllCell ==
    /\ pc = "idle"
    /\ calls < MaxCalls
    /\ pc' = "loop"
    /\ update' = FALSE
    /\ pos' = 1
    /\ passes' = 0
    /\ UNCHANGED <<size, input, order, raised, place, value, cands, calls, ops>>

\* One iteration of the for-loop: update_one_cell on the next cell.
ForBody ==
    /\ pc = "loop"
    /\ pos <= NumCells
    /\ LET c == OrderAt(order, pos, NumCells)
           after == update_one_cell(c)
       IN  /\ value' = [value EXCEPT ![c] = after.value]
           /\ cands' = [cands EXCEPT ![c] = after.candidates]
           /\ update' = (update \/ after.ret)
    /\ pos' = pos + 1
    /\ UNCHANGED <<size, input, order, pc, raised, place, passes, calls, ops>>

\* update_all_cell without the final "update = False".
PassEndNoReset ==
    /\ pc = "loop"
    /\ pos = NumCells + 1
    /\ passes < MaxPasses
    /\ passes' = passes + 1
    /\ IF ~update
       THEN /\ pc' = "idle"
            /\ pos' = 0
            /\ calls' = calls + 1
       ELSE /\ pos' = 1
            /\ UNCHANGED <<pc, calls>>
    /\ UNCHANGED <<size, input, order, raised, place, value, cands, update, ops>>

\* update_all_cell that returns after its first pass whatever the flag says.
PassEndAlwaysBreak ==
    /\ pc = "loop"
    /\ pos = NumCells + 1
    /\ passes < MaxPasses
    /\ passes' = passes + 1
    /\ pc' = "idle"
    /\ pos' = 0
    /\ update' = FALSE
    /\ calls' = calls + 1
    /\ UNCHANGED <<size, input, order, raised, place, value, cands, ops>>

\* update_all_cell with the test inverted: "if update: break".
PassEndBreakOnChange ==
    /\ pc = "loop"
    /\ pos = NumCells + 1
    /\ passes < MaxPasses
    /\ passes' = passes + 1
    /\ IF update
       THEN /\ pc' = "idle"
            /\ pos' = 0
            /\ calls' = calls + 1
            /\ UNCHANGED update
       ELSE /\ update' = FALSE
            /\ pos' = 1
            /\ UNCHANGED <<pc, calls>>
    /\ UNCHANGED <<size, input, order, raised, place, value, cands, ops>>

\* The end of a pass: break when nothing changed, else clear the flag
\* and run another pass.
PassEnd ==
    /\ pc = "loop"
    /\ pos = NumCells + 1
    /\ passes < MaxPasses
    /\ passes' = passes + 1
    /\ IF ~update
       THEN /\ pc' = "idle"
            /\ pos' = 0
            /\ calls' = calls + 1
            /\ UNCHANGED update
       ELSE /\ update' = FALSE
            /\ pos' = 1
            /\ UNCHANGED <<pc, calls>>
    /\ UNCHANGED <<size, input, order, raised, place, value, cands, ops>>

Next == BoardInit \/ UpdateAllCell \/ ForBody \/ PassEnd

Spec == Init /\ [][Next]_vars

\* The loop is single-threaded and never waits: a step that can be taken is taken.
FairSpec == Spec /\ WF_vars(Next)

----------------------------------------------------------------------------
(* The methods called one at a time *)

\* Sizes the second driver uses.
ApiSizes == {1, 4}

\* Either a Board is about to be built from a fixture, or a single
\* Cell(0, v, size) from a value v of 0..size+1.
ApiInit ==
    /\ size \in ApiSizes
    /\ \/ pc = "new" /\ input \in Fixtures(size)
       \/ pc = "newcell" /\ input \in { <<v>> : v \in 0..(size + 1) }
    /\ order = 0
    /\ raised = "none"
    /\ place = << >>
    /\ value = << >>
    /\ cands = << >>
    /\ update = FALSE
    /\ pos = 0
    /\ passes = 0
    /\ calls = 0
    /\ ops = 0

\* Cell(0, input[1], size)
CellNew ==
    /\ pc = "newcell"
    /\ pc' = "cell"
    /\ place' = [c \in {0} |-> get_pos(0, size)]
    /\ value' = [c \in {0} |-> InitValue(input[1], size)]
    /\ cands' = [c \in {0} |-> InitCandidates(input[1], size)]
    /\ UNCHANGED <<size, input, order, raised, update, pos, passes, calls, ops>>

\* cell.remove_candidates(R)
CellRemoveCandidates ==
    /\ pc = "cell"
    /\ ops < MaxDirect
    /\ \E R \in SUBSET (0..size) :
          cands' = [cands EXCEPT ![0] = remove_candidates(cands[0], R)]
    /\ ops' = ops + 1
    /\ UNCHANGED <<size, input, order, pc, raised, place, value, update, pos, passes, calls>>

\* cell.decide()
CellDecide ==
    /\ pc = "cell"
    /\ ops < MaxDirect
    /\ LET after == decide(value[0], cands[0])
       IN  /\ value' = [value EXCEPT ![0] = after.value]
           /\ cands' = [cands EXCEPT ![0] = after.candidates]
    /\ ops' = ops + 1
    /\ UNCHANGED <<size, input, order, pc, raised, place, update, pos, passes, calls>>

\* cell.update_cell(R)
CellUpdateCell ==
    /\ pc = "cell"
    /\ ops < MaxDirect
    /\ \E R \in SUBSET (0..size) :
          LET after == update_cell(value[0], cands[0], R)
          IN  /\ value' = [value EXCEPT ![0] = after.value]
              /\ cands' = [cands EXCEPT ![0] = after.candidates]
    /\ ops' = ops + 1
    /\ UNCHANGED <<size, input, order, pc, raised, place, update, pos, passes, calls>>

\* board.update_one_cell(c) on a cell c of the driver's choice; the value
\* returned is dropped.
CallUpdateOneCell ==
    /\ pc = "idle"
    /\ ops < MaxDirect
    /\ \E c \in Cells :
          LET after == update_one_cell(c)
          IN  /\ value' = [value EXCEPT ![c] = after.value]
              /\ cands' = [cands EXCEPT ![c] = after.candidates]
    /\ ops' = ops + 1
    /\ UNCHANGED <<size, input, order, pc, raised, place, update, pos, passes, calls>>

ApiNext ==
    BoardInit \/ CellNew \/ CellRemoveCandidates \/ CellDecide \/ CellUpdateCell
        \/ CallUpdateOneCell

ApiSpec == ApiInit /\ [][ApiNext]_vars

----------------------------------------------------------------------------
(* Helpers of the properties *)

Built == pc \in {"idle", "loop"}

\* Two cells share a row, a column or a block.
SameGroup(c, d) == row(c) = row(d) \/ col(c) = col(d) \/ block(c) = block(d)

\* No two distinct cells of one group hold the same set value.
NoDuplicate ==
    \A c \in Cells :
        value[c] = None \/ \A d \in Cells : (d # c /\ value[d] = value[c]) => ~SameGroup(c, d)

\* The value the constructor gives cell c.
Given(c) == InitValue(input[c + 1], size)

\* The given values have no duplicate in any row, column or block.
GivensDistinct ==
    \A c \in Cells :
        Given(c) = None \/ \A d \in Cells : (d # c /\ Given(d) = Given(c)) => ~SameGroup(c, d)

\* The cell c got its value from decide(), not from the constructor.
Decided(c) == Given(c) = None /\ value[c] # None

\* The number of candidate elements on the board, now and as constructed.
Mass == Cardinality({ p \in Cells \X (0..size) : p[2] \in cands[p[1]] })

InitMass ==
    Cardinality({ p \in Cells \X (1..size) : p[2] \in InitCandidates(input[p[1] + 1], size) })

----------------------------------------------------------------------------
(* Properties *)

\* C1 (decide soundness): on a board whose given values have no duplicate
\* in any row, column or block, no two distinct cells of a row, a column or
\* a block ever hold the same set value, and Board.valid() stays true.
C1_DecideSoundness ==
    []((Built /\ GivensDistinct) => (NoDuplicate /\ BoardValid))

\* A 4x4 or 9x9 board without duplicate givens on which update_all_cell has
\* returned after decide() set some cell.
C1_Witness ==
    /\ pc = "idle" /\ calls >= 1 /\ size > 1 /\ GivensDistinct
    /\ \E c \in Cells : Decided(c)

\* C2 (termination): every update_all_cell that is entered returns, and
\* the flag that asks for another pass is raised only by a step that
\* removes at least one element from a candidate set.
C2_Terminates ==
    /\ (pc = "loop") ~> (pc = "idle")
    /\ [][(pc = "loop" /\ ~update /\ update') => Mass' < Mass]_vars

\* update_all_cell has returned after three passes or more on a board with
\* contradictory givens.
C2_Witness == pc = "idle" /\ calls >= 1 /\ passes >= 3 /\ ~GivensDistinct

\* C3 as claimed: update_all_cell never runs more than `size` full passes.
C3_AtMostSizePasses == Built => passes <= size

\* C3 as amended: the passes completed never exceed the candidate elements
\* removed so far by more than the final pass, so a call on a new board ends
\* within size^3 + 1 passes.
C3_PassBound ==
    [](
        /\ (pc = "loop" /\ calls = 0) => passes <= InitMass - Mass
        /\ (pc = "idle" /\ calls = 1) => passes <= InitMass - Mass + 1
        /\ Built => (InitMass <= size * size * size /\ passes <= size * size * size + 1))

\* The first call has returned after more than `size` passes.
C3_Witness == pc = "idle" /\ calls = 1 /\ passes > size

\* C4 (monotonic shrink): no step of a built board adds an element to any
\* cell's candidate set.
C4_MonotonicShrink ==
    [][Built => \A c \in Cells : cands'[c] \subseteq cands[c]]_vars

\* Some cell has lost candidates and still has some.
C4_Witness ==
    /\ Built
    /\ \E c \in Cells : cands[c] # {} /\ cands[c] # InitCandidates(input[c + 1], size)

\* C5 (idempotence): once update_all_cell has returned, a further call
\* changes no value and no candidate set, never raises its flag and ends
\* after one pass.
C5_Idempotent ==
    [][calls >= 1 => (value' = value /\ cands' = cands /\ ~update' /\ passes' <= 1)]_vars

\* The second call has returned after its single pass, on a board where the
\* first call had set some cell.
C5_Witness ==
    /\ pc = "idle" /\ calls = 2 /\ passes = 1
    /\ \E c \in Cells : Decided(c)

\* C6 as claimed: every cell of a built board satisfies Cell.valid().
C6_CellInvariant == Built => \A c \in Cells : CellValid(c)

\* C7 as claimed: a sequence of the wrong length fails with SizeMismatchError.
C7_SizeMismatchError ==
    (pc # "new" /\ Len(input) # size * size) => raised = "SizeMismatchError"

\* C7 as amended: a sequence whose length is not size^2 fails with
\* ValueError and no cell is built; a sequence of size^2 values raises
\* nothing and yields the cells 0..size^2-1, one per position.
C7_ConstructionValidation ==
    [](
        pc # "new" =>
            IF Len(input) # size * size
            THEN pc = "failed" /\ raised = "ValueError" /\ Cells = {}
            ELSE /\ Built /\ raised = "none"
                 /\ Cells = 0..(size * size - 1)
                 /\ DOMAIN cands = Cells /\ DOMAIN place = Cells)

\* The constructor has refused a sequence one value too long.
C7_Witness == pc = "failed" /\ Len(input) = size * size + 1

\* The groups G[0], ..., G[size-1] partition the cells into sets of `size`.
IsPartition(G) ==
    /\ \A i \in DOMAIN G : Cardinality(G[i]) = size
    /\ \A i \in DOMAIN G : \A j \in DOMAIN G : i < j => G[i] \cap G[j] = {}
    /\ UNION { G[i] : i \in DOMAIN G } = Cells

\* C8 (geometry partition): a built board of perfect-square size has the
\* ids 0..size^2-1, each cell's column, row and block are id mod size,
\* id div size and root*(row div root) + (col div root), and the rows, the
\* columns and the blocks 0..size-1 each partition the ids into `size`
\* groups of `size` cells.
C8_GeometryPartition ==
    [](
        Built =>
            LET root == IntSqrt(size)
                rows == [i \in 0..(size - 1) |-> get_row(i)]
                cols == [i \in 0..(size - 1) |-> get_col(i)]
                blocks == [i \in 0..(size - 1) |-> get_block(i)]
            IN  root * root = size =>
                  /\ Cells = 0..(size * size - 1)
                  /\ \A c \in Cells :
                        /\ col(c) = c % size
                        /\ row(c) = c \div size
                        /\ block(c) = root * (row(c) \div root) + (col(c) \div root)
                  /\ IsPartition(rows)
                  /\ IsPartition(cols)
                  /\ IsPartition(blocks))

\* A built 9x9 board, whose last block holds the last cell.
C8_Witness == Built /\ size = 9 /\ 80 \in get_block(8)

\* C9 (Board.valid): valid() is true exactly when no group holds a
\* duplicate set value, whatever the candidate sets and the unset cells
\* are; with a duplicate, valid() and is_solved() are both false.
C9_ValidIffNoDuplicate ==
    [](
        Built => /\ BoardValid <=> NoDuplicate
                 /\ ~NoDuplicate => (~BoardValid /\ ~IsSolved))

\* A board with every cell set that holds a duplicate.
C9_Witness == Built /\ Fill /\ ~NoDuplicate /\ ~BoardValid

\* The set values (and None) found in the row, the column and the block of c.
PeerValues(c) == { value[d] : d \in { e \in Cells : SameGroup(c, e) } }

\* The for-loop is about to call update_one_cell(c).
Visiting(c) == pc = "loop" /\ pos <= NumCells /\ OrderAt(order, pos, NumCells) = c

\* C10 (contradiction is a state): update_one_cell on an unset cell whose
\* candidates are all among its peers' values raises nothing and leaves the
\* cell with no value and no candidates, so that Cell.valid() is false and
\* Board.valid() is what it was; such a cell stays so in every later step.
C10_ContradictionState ==
    [][\A c \in Cells :
          /\ (Visiting(c) /\ value[c] = None /\ cands[c] \subseteq PeerValues(c)) =>
                /\ pc' = "loop" /\ raised' = "none"
                /\ value'[c] = None /\ cands'[c] = {}
                /\ ~CellValid(c)'
                /\ BoardValid' = BoardValid
          /\ (Built /\ value[c] = None /\ cands[c] = {}) =>
                (value'[c] = None /\ cands'[c] = {})]_vars

\* update_all_cell has returned on a board without duplicate where some
\* cell that had candidates has no value and no candidates left.
C10_Witness ==
    /\ pc = "idle" /\ calls >= 1 /\ BoardValid
    /\ \E c \in Cells : value[c] = None /\ cands[c] = {}

\* C11: a Cell constructed with a value v of 1..size has value v, an empty
\* candidate set and Cell.valid() true directly after construction.
C11_GivenStartsEmpty ==
    (pc = "cell" /\ ops = 0 /\ Given(0) # None)
        => (value[0] = Given(0) /\ cands[0] = {} /\ CellValid(0))

\* C12: decide() on a cell with no value and exactly one candidate sets the
\* value to that candidate and empties the candidates; on every other cell
\* (value set, or zero or several candidates) it changes nothing.
C12_DecideContract ==
    pc = "cell" =>
        LET after == decide(value[0], cands[0])
        IN  IF value[0] = None /\ Cardinality(cands[0]) = 1
            THEN cands[0] = {after.value} /\ after.candidates = {}
            ELSE after.value = value[0] /\ after.candidates = cands[0]

\* A cell built without a value that a later call decided.
C12_Witness ==
    pc = "cell" /\ ops >= 1 /\ Given(0) = None /\ value[0] # None /\ cands[0] = {}

\* No entry of the input is a value of 1..size.
AllUnsetInput == \A i \in 1..Len(input) : input[i] \notin 1..size

\* C13: on a board of size > 1 whose inputs are all None or out of range,
\* every cell is built unset with candidates 1..size, update_all_cell returns
\* after one pass that changes nothing, and is_solved() is false.
C13_AllUnsetBoard ==
    []((Built /\ size > 1 /\ AllUnsetInput) =>
        /\ \A c \in Cells : value[c] = None /\ cands[c] = 1..size
        /\ ~update
        /\ passes <= 1
        /\ (pc = "idle" /\ calls >= 1) => passes = 1
        /\ ~IsSolved)

\* update_all_cell has returned on a 4x4 board of zeros and one 5.
C13_Witness ==
    pc = "idle" /\ calls >= 1 /\ size = 4 /\ AllUnsetInput /\ input[1] = 5 /\ passes = 1

\* Every entry of the input is a value of 1..size and no row, column or
\* block repeats one.
CompleteCorrectInput == (\A i \in 1..Len(input) : input[i] \in 1..size) /\ GivensDistinct

\* C14: is_solved() is true exactly when every cell has a value and
\* Board.valid() holds, fill() exactly when every cell has a value; a board
\* built from a complete correct grid is filled, valid and solved before any
\* update.
C14_SolvedIffFilledAndValid ==
    [](Built =>
        /\ Fill <=> (\A c \in Cells : value[c] # None)
        /\ IsSolved <=> ((\A c \in Cells : value[c] # None) /\ BoardValid)
        /\ (pc = "idle" /\ calls = 0 /\ CompleteCorrectInput)
              => (Fill /\ BoardValid /\ IsSolved))

\* The solved 4x4 grid, just constructed.
C14_Witness == pc = "idle" /\ calls = 0 /\ input = Solved4 /\ CompleteCorrectInput /\ IsSolved

\* C15: when update_all_cell has returned, every unset cell's candidates are
\* 1..size minus the set values of its row, column and block, no unset cell
\* has exactly one candidate, and on the board whose row 0 is 5 3 _ _ 7 the
\* cell at row 0, column 2 has candidates {1, 2, 4, 6, 8, 9}.
C15_FixedPointShape ==
    []((pc = "idle" /\ calls >= 1) =>
        /\ \A c \in Cells :
              value[c] = None =>
                  /\ cands[c] = (1..size) \ PeerValues(c)
                  /\ Cardinality(cands[c]) # 1
        /\ input = RowPuzzle => (value[2] = None /\ cands[2] = {1, 2, 4, 6, 8, 9}))

\* update_all_cell has returned on the 5 3 _ _ 7 board.
C15_Witness ==
    pc = "idle" /\ calls >= 1 /\ input = RowPuzzle /\ cands[2] = {1, 2, 4, 6, 8, 9}

\* C16: update_one_cell(c) removes from c's candidates exactly the set values
\* of c's row, column and block (c's own value is never a candidate), then
\* decides; it returns True iff c's candidates differ afterwards; when they do
\* not, c's value is unchanged; no other cell changes.
C16_UpdateOneCellEffect ==
    [][\A c \in Cells :
          Visiting(c) =>
              LET left == cands[c] \ (PeerValues(c) \ {None})
              IN  /\ value[c] \notin cands[c]
                  /\ IF value[c] = None /\ Cardinality(left) = 1
                     THEN left = {value'[c]} /\ cands'[c] = {}
                     ELSE value'[c] = value[c] /\ cands'[c] = left
                  /\ update' = (update \/ cands'[c] # cands[c])
                  /\ cands'[c] = cands[c] => value'[c] = value[c]
                  /\ \A d \in Cells \ {c} : value'[d] = value[d] /\ cands'[d] = cands[d]]_vars

\* The call just made removed candidates from an unset cell and left
\* several: the first change of its pass.
C16_Witness ==
    /\ pc = "loop" /\ pos > 1 /\ update
    /\ LET c == OrderAt(order, pos - 1, NumCells)
       IN  /\ value[c] = None
           /\ Cardinality(cands[c]) > 1
           /\ cands[c] # InitCandidates(input[c + 1], size)
           /\ \A d \in Cells \ {c} : cands[d] = InitCandidates(input[d + 1], size)

----------------------------------------------------------------------------
(* Complete grids *)

\* The permutations of 1..4, as rows.
Rows4 ==
    { r \in { <<a, b, c, d>> : a \in 1..4, b \in 1..4, c \in 1..4, d \in 1..4 } :
        {r[1], r[2], r[3], r[4]} = 1..4 }

\* Two rows that can share a band of a 4x4 grid.
Bands4 == { b \in Rows4 \X Rows4 : {b[1][1], b[1][2]} = {b[2][3], b[2][4]} }

\* S is a complete valid grid of size s: every entry is in 1..s and no two
\* positions of one row, column or block hold the same value.
IsValidGrid(S, s) ==
    /\ Len(S) = s * s
    /\ \A i \in 1..(s * s) : S[i] \in 1..s
    /\ \A i, j \in 1..(s * s) :
          (i < j /\ S[i] = S[j]) =>
              LET p == get_pos(i - 1, s)
                  q == get_pos(j - 1, s)
              IN  p.x # q.x /\ p.y # q.y /\ p.blk # q.blk

\* Every complete valid 4x4 grid (there are 288).
Grids4 ==
    { b[1][1] \o b[1][2] \o b[2][1] \o b[2][2] :
        b \in { p \in Bands4 \X Bands4 :
                  \A j \in 1..4 : {p[1][1][j], p[1][2][j]} \cap {p[2][1][j], p[2][2][j]} = {} } }

\* The complete grid of MainPuzzle.
MainSolution ==
   << 2, 1, 7, 4, 5, 9, 8, 3, 6,
      3, 9, 6, 8, 1, 7, 5, 2, 4,
      4, 8, 5, 3, 6, 2, 1, 7, 9,
      6, 3, 9, 5, 7, 1, 4, 8, 2,
      1, 7, 8, 6, 2, 4, 9, 5, 3,
      5, 4, 2, 9, 8, 3, 6, 1, 7,
      9, 2, 3, 1, 4, 8, 7, 6, 5,
      7, 6, 1, 2, 9, 5, 3, 4, 8,
      8, 5, 4, 7, 3, 6, 2, 9, 1 >>

\* A complete grid of RowPuzzle.
RowSolution ==
   << 5, 3, 4, 6, 7, 8, 9, 1, 2,
      6, 7, 2, 1, 9, 5, 3, 4, 8,
      1, 9, 8, 3, 4, 2, 5, 6, 7,
      8, 5, 9, 7, 6, 1, 4, 2, 3,
      4, 2, 6, 8, 5, 3, 7, 9, 1,
      7, 1, 3, 9, 2, 4, 8, 5, 6,
      9, 6, 1, 5, 3, 7, 2, 8, 4,
      2, 8, 7, 4, 1, 9, 6, 3, 5,
      3, 4, 5, 2, 8, 6, 1, 7, 9 >>

\* The complete grids a board of size s is compared with: all of them for
\* sizes 1 and 4, two of them for size 9.
Grids9 == { S \in { MainSolution, RowSolution } : IsValidGrid(S, 9) }

Grids(s) ==
    CASE s = 1 -> { <<1>> }
      [] s = 4 -> Grids4
      [] s = 9 -> Grids9

\* S agrees with the given values of the input.
Agrees(S) == \A c \in Cells : Given(c) = None \/ Given(c) = S[c + 1]

\* The given values extend to a complete valid grid.
Completable == \E S \in Grids(size) : Agrees(S)

----------------------------------------------------------------------------
(* Propagation without an order *)

\* Every cell updated at once from the values of the board b.
AllAtOnce(b) ==
    LET upd == [c \in Cells |->
                  update_cell(b.value[c], b.cands[c],
                              { b.value[d] : d \in { e \in Cells : SameGroup(c, e) } })]
    IN  [value |-> [c \in Cells |-> upd[c].value],
         cands |-> [c \in Cells |-> upd[c].candidates]]

RECURSIVE Closure(_)
Closure(b) == LET n == AllAtOnce(b) IN IF n = b THEN b ELSE Closure(n)

\* The board as constructed, and what propagation makes of it when no cell
\* is visited before another.
Constructed ==
    [value |-> [c \in Cells |-> Given(c)],
     cands |-> [c \in Cells |-> InitCandidates(input[c + 1], size)]]

Propagated == Closure(Constructed)

\* C17: on a completable board the values and candidates at the return of
\* update_all_cell do not depend on the order in which the cells are
\* visited: under every order they are the ones of the order-free
\* propagation.
C17_OrderIndependence ==
    []((pc = "idle" /\ calls >= 1 /\ Completable) =>
        (value = Propagated.value /\ cands = Propagated.cands))

\* A completable 4x4 board, visited in an order other than ascending, on
\* which propagation decided a cell.
C17_Witness ==
    /\ pc = "idle" /\ calls >= 1 /\ order # 0 /\ size = 4 /\ passes >= 3
    /\ Completable
    /\ \E c \in Cells : Decided(c)

\* C18: for every complete valid grid S that agrees with the givens, in
\* every state reached by update_one_cell calls each set cell holds S's value
\* and each unset cell has S's value among its candidates; no cell of a
\* completable board is left with no value and no candidate.
C18_SolutionsPreserved ==
    [](pc = "idle" =>
        /\ \A S \in Grids(size) :
              Agrees(S) =>
                  \A c \in Cells :
                      IF value[c] # None THEN value[c] = S[c + 1] ELSE S[c + 1] \in cands[c]
        /\ Completable => \A c \in Cells : ~(value[c] = None /\ cands[c] = {}))

\* Two calls in a row each decided a cell of a completable board.
C18_Witness ==
    /\ pc = "idle" /\ ops = 2 /\ Completable
    /\ Cardinality(Grids4) = 288 /\ (\A S \in Grids4 : IsValidGrid(S, 4))
    /\ Cardinality({ c \in Cells : Decided(c) }) = 2

\* C19: a value that is set is never changed or unset by a later step, and
\* every given value is in place when update_all_cell returns.
C19_ValueStability ==
    /\ [][\A c \in Cells : value[c] # None => value'[c] = value[c]]_vars
    /\ []((pc = "idle" /\ calls >= 1) => \A c \in Cells : Given(c) # None => value[c] = Given(c))

\* update_all_cell has returned with a given cell that was left with exactly
\* one candidate, next to a cell that decide() has set.
C19_Witness ==
    /\ pc = "idle" /\ calls >= 1
    /\ \E c \in Cells : Given(c) # None /\ value[c] = Given(c) /\ Cardinality(cands[c]) = 1
    /\ \E c \in Cells : Decided(c)

====
